---- MODULE Spec2Model ----
(***************************************************************************)
(* Model of neural_tangents/utils/kernel.py: the Kernel record and its     *)
(* four structural operations slice, reverse, transpose and mask.          *)
(*                                                                         *)
(* An ndarray is a record [shape, data]: shape is the tuple of axis sizes  *)
(* and data maps every index tuple (0-based components) to an element.     *)
(* Axes are numbered from 0 as in Python; tuples of the model are 1-based, *)
(* so axis a of an array is component a + 1 of its shape.                  *)
(***************************************************************************)
EXTENDS Integers, Sequences, FiniteSets, TLC

\* Batch size of both input batches of an initial Kernel.
BatchSize == 2
\* Size of every spatial dimension of an initial Kernel.
SpatialSize == 2
\* Largest number of spatial dimensions of an initial Kernel.
MaxNdim == 2
\* Largest number of spatial dimensions where only reverse or only transpose
\* is followed.
DeepNdim == 3
\* Number of channels of the inputs.
Channels == 2
\* Longest sequence of calls followed from an initial Kernel.
MaxSteps == 2

----------------------------------------------------------------------------
(* Python values *)

\* None
None == [none |-> TRUE]

\* x is None
is_none(x) == "none" \in DOMAIN x

\* utils.is_array(x): whether the field holds an ndarray
is_array(x) == "shape" \in DOMAIN x

\* tuple(range(n))
range(n) == [i \in 1..n |-> i - 1]

\* Python's normalisation of a possibly negative axis
norm_axis(a, nd) == IF a < 0 THEN a + nd ELSE a

\* whether every axis of the tuple is an axis of an nd-dimensional array,
\* and none is named twice
axes_ok(axes, nd) ==
  /\ \A i \in 1..Len(axes) : norm_axis(axes[i], nd) \in 0..(nd - 1)
  /\ \A i, j \in 1..Len(axes) :
       i # j => norm_axis(axes[i], nd) # norm_axis(axes[j], nd)

\* list.insert(pos, x), pos 0-based
list_insert(s, pos, x) ==
  LET p == IF pos > Len(s) THEN Len(s) ELSE pos
  IN  SubSeq(s, 1, p) \o <<x>> \o SubSeq(s, p + 1, Len(s))

RECURSIVE seq_max(_)
seq_max(s) ==
  IF Len(s) = 0 THEN 0
  ELSE LET m == seq_max(Tail(s)) IN IF Head(s) > m THEN Head(s) ELSE m

\* all index tuples of an array of the given shape
Idx(shape) ==
  {i \in [1..Len(shape) -> 0..(seq_max(shape) - 1)] :
     \A j \in 1..Len(shape) : i[j] < shape[j]}

\* ndarray.ndim
ndim_of(a) == Len(a.shape)

----------------------------------------------------------------------------
(* numpy primitives *)

\* np.transpose(a, axes): axis i of the result is axis axes[i] of a
np_transpose(a, axes) ==
  LET nd == Len(a.shape)
      newshape == [i \in 1..nd |-> a.shape[axes[i] + 1]]
      pos == [j \in 1..nd |-> CHOOSE i \in 1..nd : axes[i] + 1 = j]
  IN  [shape |-> newshape,
       data  |-> [idx \in Idx(newshape) |->
                    a.data[[j \in 1..nd |-> idx[pos[j]]]]]]

\* the (destination, source) pairs of np.moveaxis sorted by destination
RECURSIVE sorted_pairs(_)
sorted_pairs(P) ==
  IF P = {} THEN <<>>
  ELSE LET p == CHOOSE q \in P : \A r \in P : q[1] <= r[1]
       IN  <<p>> \o sorted_pairs(P \ {p})

RECURSIVE insert_all(_, _)
insert_all(order, pairs) ==
  IF Len(pairs) = 0 THEN order
  ELSE insert_all(list_insert(order, Head(pairs)[1], Head(pairs)[2]),
                  Tail(pairs))

\* the permutation np.moveaxis hands to transpose
moveaxis_perm(nd, source, destination) ==
  LET src == [i \in 1..Len(source) |-> norm_axis(source[i], nd)]
      dst == [i \in 1..Len(destination) |-> norm_axis(destination[i], nd)]
      rest == SelectSeq(range(nd), LAMBDA n : \A i \in 1..Len(src) : src[i] # n)
      pairs == sorted_pairs({<<dst[i], src[i]>> : i \in 1..Len(src)})
  IN  insert_all(rest, pairs)

\* whether np.moveaxis(a, source, destination) raises
moveaxis_raises(a, source, destination) ==
  \/ ~axes_ok(source, ndim_of(a))
  \/ ~axes_ok(destination, ndim_of(a))
  \/ Len(source) # Len(destination)

\* np.moveaxis(a, source, destination)
np_moveaxis(a, source, destination) ==
  np_transpose(a, moveaxis_perm(ndim_of(a), source, destination))

\* np.squeeze(a, -1): drop the last axis
np_squeeze_last(a) ==
  LET nd == Len(a.shape)
      newshape == SubSeq(a.shape, 1, nd - 1)
  IN  [shape |-> newshape,
       data  |-> [idx \in Idx(newshape) |-> a.data[Append(idx, 0)]]]

\* the indices a Python slice [start, stop, step] selects on an axis of size n
RECURSIVE slice_from(_, _, _)
slice_from(i, stop, step) ==
  IF i >= stop THEN <<>> ELSE <<i>> \o slice_from(i + step, stop, step)

slice_indices(sl, n) ==
  slice_from(IF sl.start > n THEN n ELSE sl.start,
             IF sl.stop > n THEN n ELSE sl.stop,
             sl.step)

\* a[sl]: the selection along axis 0
getitem0(a, sl) ==
  LET sel == slice_indices(sl, a.shape[1])
      newshape == <<Len(sel)>> \o Tail(a.shape)
  IN  [shape |-> newshape,
       data  |-> [idx \in Idx(newshape) |->
                    a.data[<<sel[idx[1] + 1]>> \o Tail(idx)]]]

\* a[sl1, sl2]: the selection along axes 0 and 1
getitem01(a, sl1, sl2) ==
  LET sel1 == slice_indices(sl1, a.shape[1])
      sel2 == slice_indices(sl2, a.shape[2])
      newshape == <<Len(sel1), Len(sel2)>> \o Tail(Tail(a.shape))
  IN  [shape |-> newshape,
       data  |-> [idx \in Idx(newshape) |->
                    a.data[<<sel1[idx[1] + 1], sel2[idx[2] + 1]>>
                           \o Tail(Tail(idx))]]]

\* numpy broadcasting of two shapes: aligned at the last axis
pad_shape(s, nd) == [i \in 1..nd |-> IF i <= nd - Len(s) THEN 1 ELSE s[i - (nd - Len(s))]]

broadcast_ndim(sx, sy) == IF Len(sx) > Len(sy) THEN Len(sx) ELSE Len(sy)

broadcast_ok(sx, sy) ==
  LET nd == broadcast_ndim(sx, sy)
      px == pad_shape(sx, nd)
      py == pad_shape(sy, nd)
  IN  \A i \in 1..nd : px[i] = py[i] \/ px[i] = 1 \/ py[i] = 1

broadcast_shape(sx, sy) ==
  LET nd == broadcast_ndim(sx, sy)
      px == pad_shape(sx, nd)
      py == pad_shape(sy, nd)
  IN  [i \in 1..nd |-> IF px[i] = 1 THEN py[i] ELSE px[i]]

\* the index of an operand of shape s that a broadcast index idx reads
broadcast_index(idx, s) ==
  LET off == Len(idx) - Len(s)
  IN  [j \in 1..Len(s) |-> IF s[j] = 1 THEN 0 ELSE idx[j + off]]

\* op.or_ on two boolean arrays
np_or(x, y) ==
  LET newshape == broadcast_shape(x.shape, y.shape)
  IN  [shape |-> newshape,
       data  |-> [idx \in Idx(newshape) |->
                    \/ x.data[broadcast_index(idx, x.shape)]
                    \/ y.data[broadcast_index(idx, y.shape)]]]

\* np.where(mask, np.zeros((), mat.dtype), mat)
np_where_zero(mask, mat) ==
  LET newshape == broadcast_shape(mask.shape, mat.shape)
  IN  [shape |-> newshape,
       data  |-> [idx \in Idx(newshape) |->
                    IF mask.data[broadcast_index(idx, mask.shape)]
                    THEN 0
                    ELSE mat.data[broadcast_index(idx, mat.shape)]]]

----------------------------------------------------------------------------
(* utils.outer_prod *)

\* utils.interleave_ones(x, start_axis, end_axis, x_first): every axis in
\* [start_axis, end_axis) gets a size-1 neighbour, after it if x_first and
\* before it otherwise
interleave_ones(x, start_axis, end_axis, x_first) ==
  LET nd == Len(x.shape)
      e == IF end_axis > nd THEN nd ELSE end_axis
      n == IF e > start_axis THEN e - start_axis ELSE 0
      \* new axis (0-based) of old axis j (0-based)
      to == [j \in 0..(nd - 1) |->
               IF j < start_axis THEN j
               ELSE IF j < e
                    THEN start_axis + 2 * (j - start_axis)
                         + (IF x_first THEN 0 ELSE 1)
                    ELSE j + n]
      newshape == [p \in 1..(nd + n) |->
                     IF \E j \in 0..(nd - 1) : to[j] = p - 1
                     THEN x.shape[(CHOOSE j \in 0..(nd - 1) : to[j] = p - 1) + 1]
                     ELSE 1]
  IN  [shape |-> newshape,
       data  |-> [idx \in Idx(newshape) |->
                    x.data[[j \in 1..nd |-> idx[to[j - 1] + 1]]]]]

\* utils.outer_prod(x, y, start_axis, end_axis, op.or_)
outer_prod(x, y, start_axis, end_axis) ==
  LET yy == IF is_none(y) THEN x ELSE y
  IN  np_or(interleave_ones(x, start_axis, end_axis, TRUE),
            interleave_ones(yy, start_axis, end_axis, FALSE))

\* whether utils.outer_prod raises: it reads x.shape, and the two interleaved
\* operands have to broadcast
outer_prod_raises(x, y, start_axis, end_axis) ==
  IF is_none(x) THEN "AttributeError"
  ELSE LET yy == IF is_none(y) THEN x ELSE y
       IN  IF broadcast_ok(interleave_ones(x, start_axis, end_axis, TRUE).shape,
                           interleave_ones(yy, start_axis, end_axis, FALSE).shape)
           THEN "none" ELSE "ValueError"

----------------------------------------------------------------------------
(* Kernel.slice *)

\* Kernel.slice raises when self.ntk is None: None is not subscriptable
slice_raises(self, n1_slice, n2_slice) ==
  IF is_none(self.ntk) THEN "TypeError" ELSE "none"

\* slice with shape1 and shape2 taken whole from the sliced arrays
slice_takes_array_shape(self, n1_slice, n2_slice) ==
  LET cov1 == getitem0(self.cov1, n1_slice)
      cov2 == IF is_none(self.cov2) THEN getitem0(self.cov1, n2_slice)
              ELSE getitem0(self.cov2, n2_slice)
      mask1 == IF is_none(self.mask1) THEN None
               ELSE getitem0(self.mask1, n1_slice)
      mask2 == IF is_none(self.mask2) THEN None
               ELSE getitem0(self.mask2, n2_slice)
  IN  [self EXCEPT
         !.cov1 = cov1,
         !.nngp = getitem01(self.nngp, n1_slice, n2_slice),
         !.cov2 = cov2,
         !.ntk = getitem01(self.ntk, n1_slice, n2_slice),
         !.shape1 = cov1.shape,
         !.shape2 = cov2.shape,
         !.mask1 = mask1,
         !.mask2 = mask2]

\* Kernel.slice(n1_slice, n2_slice)
slice(self, n1_slice, n2_slice) ==
  LET cov1 == getitem0(self.cov1, n1_slice)
      cov2 == IF is_none(self.cov2) THEN getitem0(self.cov1, n2_slice)
              ELSE getitem0(self.cov2, n2_slice)
      mask1 == IF is_none(self.mask1) THEN None
               ELSE getitem0(self.mask1, n1_slice)
      mask2 == IF is_none(self.mask2) THEN None
               ELSE getitem0(self.mask2, n2_slice)
  IN  [self EXCEPT
         !.cov1 = cov1,
         !.nngp = getitem01(self.nngp, n1_slice, n2_slice),
         !.cov2 = cov2,
         !.ntk = getitem01(self.ntk, n1_slice, n2_slice),
         !.shape1 = <<cov1.shape[1]>> \o Tail(self.shape1),
         !.shape2 = <<cov2.shape[1]>> \o Tail(self.shape2),
         !.mask1 = mask1,
         !.mask2 = mask2]

----------------------------------------------------------------------------
(* Kernel.reverse *)

\* number of spatial dimensions = total - (1 for batch + 1 for channels)
spatial_ndim(self) == Len(self.shape1) - 2

\* tuple(j for i in range(-ndim * 2, 0, 2) for j in (i + 1, i))
source_axes(ndim) ==
  [p \in 1..(2 * ndim) |->
     LET i == -ndim * 2 + 2 * ((p - 1) \div 2)
     IN  IF p % 2 = 1 THEN i + 1 ELSE i]

\* tuple(range(-1, -ndim * 2 - 1, -1))
target_axes(ndim) == [p \in 1..(2 * ndim) |-> -p]

\* the inner reverse(mat) of Kernel.reverse
reverse_mat(self, mat) ==
  IF is_array(mat)
  THEN np_moveaxis(mat, source_axes(spatial_ndim(self)),
                   target_axes(spatial_ndim(self)))
  ELSE mat

reverse_mat_raises(self, mat) ==
  /\ is_array(mat)
  /\ moveaxis_raises(mat, source_axes(spatial_ndim(self)),
                     target_axes(spatial_ndim(self)))

\* Kernel.reverse raises when np.moveaxis rejects the axes for one of the
\* arrays
reverse_raises(self) ==
  IF \/ reverse_mat_raises(self, self.cov1)
     \/ reverse_mat_raises(self, self.nngp)
     \/ reverse_mat_raises(self, self.cov2)
     \/ reverse_mat_raises(self, self.ntk)
  THEN "ValueError" ELSE "none"

\* reverse with is_reversed set instead of flipped
reverse_sets_flag(self) ==
  [self EXCEPT
     !.cov1 = reverse_mat(self, self.cov1),
     !.nngp = reverse_mat(self, self.nngp),
     !.cov2 = reverse_mat(self, self.cov2),
     !.ntk = reverse_mat(self, self.ntk),
     !.is_reversed = TRUE]

\* Kernel.reverse()
reverse(self) ==
  [self EXCEPT
     !.cov1 = reverse_mat(self, self.cov1),
     !.nngp = reverse_mat(self, self.nngp),
     !.cov2 = reverse_mat(self, self.cov2),
     !.ntk = reverse_mat(self, self.ntk),
     !.is_reversed = ~self.is_reversed]

----------------------------------------------------------------------------
(* Kernel.transpose *)

\* the axes with numpy's default, the reversed order, when axes is None
transpose_axes_numpy_default(self, axes) ==
  IF is_none(axes)
  THEN [i \in 1..(Len(self.shape1) - 2) |-> Len(self.shape1) - 2 - i]
  ELSE axes.tuple

\* the axes Kernel.transpose uses: the identity order when axes is None
transpose_axes(self, axes) ==
  IF is_none(axes) THEN range(Len(self.shape1) - 2) ELSE axes.tuple

\* the _axes with the two axes of every pair in swapped order
permute_axes_swapped_pair(self, axes, batch_ndim) ==
  LET a1 == [i \in 1..Len(axes) |-> batch_ndim + axes[i]]
      a2 == IF ~self.diagonal_spatial
            THEN [p \in 1..(2 * Len(a1)) |->
                    LET a == a1[(p + 1) \div 2]
                    IN  IF p % 2 = 1 THEN 2 * a - batch_ndim + 1
                        ELSE 2 * a - batch_ndim]
            ELSE a1
  IN  range(batch_ndim) \o a2

\* the _axes that permute hands to np.transpose
permute_axes(self, axes, batch_ndim) ==
  LET a1 == [i \in 1..Len(axes) |-> batch_ndim + axes[i]]
      a2 == IF ~self.diagonal_spatial
            THEN [p \in 1..(2 * Len(a1)) |->
                    LET a == a1[(p + 1) \div 2]
                    IN  IF p % 2 = 1 THEN 2 * a - batch_ndim
                        ELSE 2 * a - batch_ndim + 1]
            ELSE a1
  IN  range(batch_ndim) \o a2

\* whether np.transpose accepts the axes: a permutation of all axes of mat
is_permutation(axes, nd) ==
  /\ Len(axes) = nd
  /\ \A n \in 0..(nd - 1) : \E i \in 1..Len(axes) : axes[i] = n

\* the inner permute(mat, batch_ndim) of Kernel.transpose
permute(self, axes, mat, batch_ndim) ==
  IF is_array(mat)
  THEN np_transpose(mat, permute_axes(self, axes, batch_ndim))
  ELSE mat

permute_raises(self, axes, mat, batch_ndim) ==
  /\ is_array(mat)
  /\ ~is_permutation(permute_axes(self, axes, batch_ndim), ndim_of(mat))

\* 1 if self.diagonal_batch else 2
cov_batch_ndim(self) == IF self.diagonal_batch THEN 1 ELSE 2

transpose_raises(self, axes) ==
  LET ax == transpose_axes(self, axes)
  IN  IF \/ permute_raises(self, ax, self.cov1, cov_batch_ndim(self))
         \/ permute_raises(self, ax, self.cov2, cov_batch_ndim(self))
         \/ permute_raises(self, ax, self.nngp, 2)
         \/ permute_raises(self, ax, self.ntk, 2)
      THEN "ValueError" ELSE "none"

\* Kernel.transpose(axes)
transpose(self, axes) ==
  LET ax == transpose_axes(self, axes)
  IN  [self EXCEPT
         !.cov1 = permute(self, ax, self.cov1, cov_batch_ndim(self)),
         !.cov2 = permute(self, ax, self.cov2, cov_batch_ndim(self)),
         !.nngp = permute(self, ax, self.nngp, 2),
         !.ntk = permute(self, ax, self.ntk, 2)]

----------------------------------------------------------------------------
(* Kernel.mask and Kernel._get_mask_prods *)

\* the test made on the last axis, whatever the channel axis is
channel_wise_last_axis(self, m) == m.shape[ndim_of(m)] # 1

\* m.shape[self.channel_axis] != 1
channel_wise(self, m) ==
  m.shape[norm_axis(self.channel_axis, ndim_of(m)) + 1] # 1

\* the inner reshape(m) of get_mask_prod raises on a channel-wise mask
reshape_raises(self, m) ==
  IF is_none(m) THEN FALSE ELSE channel_wise(self, m)

\* reshape without the reversal of the spatial axes of a reversed kernel
reshape_ignores_reversed(self, m) ==
  IF is_none(m) THEN m
  ELSE np_squeeze_last(
         np_moveaxis(m, <<self.batch_axis, self.channel_axis>>, <<0, -1>>))

\* the inner reshape(m) of get_mask_prod: batch axis first, channel axis
\* dropped, spatial axes reversed if the kernel is reversed
reshape(self, m) ==
  IF is_none(m) THEN m
  ELSE LET m_sq == np_squeeze_last(
                     np_moveaxis(m, <<self.batch_axis, self.channel_axis>>,
                                 <<0, -1>>))
           nd == ndim_of(m_sq)
       IN  IF self.is_reversed
           THEN np_moveaxis(m_sq, [i \in 1..(nd - 1) |-> i],
                            [i \in 1..(nd - 1) |-> nd - i])
           ELSE m_sq

\* the error get_mask_prod(m1, m2, batch_ndim) raises, "none" if it returns
get_mask_prod_raises(self, m1, m2, batch_ndim) ==
  IF is_none(m1) /\ is_none(m2) THEN "none"
  ELSE IF reshape_raises(self, m1) \/ reshape_raises(self, m2)
  THEN "NotImplementedError"
  ELSE IF ~self.diagonal_spatial /\ is_none(m1)
  THEN "AttributeError"
  ELSE outer_prod_raises(reshape(self, m1), reshape(self, m2),
                         2 - batch_ndim,
                         IF self.diagonal_spatial THEN 1
                         ELSE ndim_of(reshape(self, m1)))

\* get_mask_prod(m1, m2, batch_ndim)
get_mask_prod(self, m1, m2, batch_ndim) ==
  IF is_none(m1) /\ is_none(m2) THEN None
  ELSE LET r1 == reshape(self, m1)
           r2 == reshape(self, m2)
           start_axis == 2 - batch_ndim
           end_axis == IF self.diagonal_spatial THEN 1 ELSE ndim_of(r1)
       IN  outer_prod(r1, r2, start_axis, end_axis)

\* the three products of _get_mask_prods
mask11_of(self, mask1, mask2) ==
  get_mask_prod(self, mask1, mask1, cov_batch_ndim(self))

mask22_of(self, mask1, mask2) ==
  IF ~is_none(mask2)
  THEN get_mask_prod(self, mask2, mask2, cov_batch_ndim(self))
  ELSE mask11_of(self, mask1, mask2)

mask12_of(self, mask1, mask2) == get_mask_prod(self, mask1, mask2, 2)

\* the error _get_mask_prods raises, "none" if it returns: mask11, mask22
\* and mask12 are computed in this order
get_mask_prods_raises(self, mask1, mask2) ==
  LET e11 == get_mask_prod_raises(self, mask1, mask1, cov_batch_ndim(self))
      e22 == IF ~is_none(mask2)
             THEN get_mask_prod_raises(self, mask2, mask2, cov_batch_ndim(self))
             ELSE "none"
      e12 == get_mask_prod_raises(self, mask1, mask2, 2)
  IN  IF e11 # "none" THEN e11
      ELSE IF e22 # "none" THEN e22
      ELSE e12

\* the inner mask_mat(mat, mask) of Kernel.mask
mask_mat(mat, mask) ==
  IF ~is_array(mat) \/ is_none(mask) THEN mat
  ELSE np_where_zero(mask, mat)

mask_mat_raises(mat, mask) ==
  /\ is_array(mat)
  /\ ~is_none(mask)
  /\ ~broadcast_ok(mask.shape, mat.shape)

\* the error Kernel.mask raises, "none" if it returns
mask_raises(self, mask1, mask2) ==
  LET e == get_mask_prods_raises(self, mask1, mask2)
  IN  IF e # "none" THEN e
      ELSE IF \/ mask_mat_raises(self.cov1, mask11_of(self, mask1, mask2))
              \/ mask_mat_raises(self.cov2, mask22_of(self, mask1, mask2))
              \/ mask_mat_raises(self.nngp, mask12_of(self, mask1, mask2))
              \/ mask_mat_raises(self.ntk, mask12_of(self, mask1, mask2))
      THEN "ValueError" ELSE "none"

\* Kernel.mask(mask1, mask2)
mask(self, mask1, mask2) ==
  LET mask11 == mask11_of(self, mask1, mask2)
      mask22 == mask22_of(self, mask1, mask2)
      mask12 == mask12_of(self, mask1, mask2)
  IN  [self EXCEPT
         !.cov1 = mask_mat(self.cov1, mask11),
         !.cov2 = mask_mat(self.cov2, mask22),
         !.nngp = mask_mat(self.nngp, mask12),
         !.ntk = mask_mat(self.ntk, mask12),
         !.mask1 = mask1,
         !.mask2 = mask2]

----------------------------------------------------------------------------
(* The caller's state: the Kernel it holds and the calls it has made *)

VARIABLES
  k,      \* the Kernel the caller holds
  trace   \* the calls made so far: operation, arguments, receiver, error

vars == <<k, trace>>

\* a distinct non-zero element for every index of every array: the digits
\* tag, idx[1] + 1, idx[2] + 1, ... in the given base
RECURSIVE element_code(_, _, _)
element_code(acc, idx, base) ==
  IF Len(idx) = 0 THEN acc
  ELSE element_code(acc * base + Head(idx) + 1, Tail(idx), base)

new_array(tag, shape) ==
  [shape |-> shape,
   data  |-> [idx \in Idx(shape) |-> element_code(tag, idx, seq_max(shape) + 1)]]

\* the storage shape of a covariance array with the given leading batch sizes
cov_shape(batch, diagonal_spatial, ndim) ==
  batch \o [i \in 1..(IF diagonal_spatial THEN ndim ELSE 2 * ndim) |-> SpatialSize]

\* the logical input shape: batch axis 0, channels at channel_axis
input_shape(n, ndim, channel_axis) ==
  [j \in 1..(ndim + 2) |->
     IF j = 1 THEN n ELSE IF j = channel_axis + 1 THEN Channels ELSE SpatialSize]

\* a Kernel as an upstream kernel function builds it
new_kernel(diagonal_batch, diagonal_spatial, ndim, has_cov2, has_ntk, is_reversed, channel_axis) ==
  LET b1 == IF diagonal_batch THEN <<BatchSize>> ELSE <<BatchSize, BatchSize>>
  IN  [nngp |-> new_array(3, cov_shape(<<BatchSize, BatchSize>>,
                                       diagonal_spatial, ndim)),
       ntk |-> IF has_ntk
               THEN new_array(4, cov_shape(<<BatchSize, BatchSize>>,
                                           diagonal_spatial, ndim))
               ELSE None,
       cov1 |-> new_array(1, cov_shape(b1, diagonal_spatial, ndim)),
       cov2 |-> IF has_cov2
                THEN new_array(2, cov_shape(b1, diagonal_spatial, ndim))
                ELSE None,
       x1_is_x2 |-> ~has_cov2,
       is_gaussian |-> TRUE,
       is_reversed |-> is_reversed,
       is_input |-> FALSE,
       diagonal_batch |-> diagonal_batch,
       diagonal_spatial |-> diagonal_spatial,
       shape1 |-> input_shape(BatchSize, ndim, channel_axis),
       shape2 |-> input_shape(BatchSize, ndim, channel_axis),
       batch_axis |-> 0,
       channel_axis |-> channel_axis,
       mask1 |-> None,
       mask2 |-> None]

\* the caller holds a Kernel of any layout with at most max_ndim spatial
\* dimensions and has called nothing yet
InitUpTo(max_ndim) ==
  /\ \E diagonal_batch, diagonal_spatial, has_cov2, has_ntk, is_reversed \in BOOLEAN :
       \E ndim \in 0..max_ndim :
         \E channel_axis \in {1, ndim + 1} :
           k = new_kernel(diagonal_batch, diagonal_spatial, ndim, has_cov2,
                          has_ntk, is_reversed, channel_axis)
  /\ trace = <<>>

Init == InitUpTo(MaxNdim)

InitDeep == InitUpTo(DeepNdim)

\* the slices a caller passes: all samples but the first, every second sample
Slices ==
  {[start |-> 1, stop |-> BatchSize, step |-> 1],
   [start |-> 0, stop |-> BatchSize, step |-> 2]}

\* all permutations of 0..n-1 as tuples
Perms(n) ==
  {p \in [1..n -> 0..(n - 1)] : \A i, j \in 1..n : i # j => p[i] # p[j]}

\* the axes arguments a caller passes: omitted, or a permutation
AxesArgs(self) ==
  {None} \cup {[tuple |-> p] : p \in Perms(spatial_ndim(self))}

\* a mask shape for an input of the given shape: size 1 along the channel axis
mask_shape(self, shape) == [shape EXCEPT ![self.channel_axis + 1] = 1]

\* the mask that is True at exactly one index
one_hot(shape, p) == [shape |-> shape, data |-> [idx \in Idx(shape) |-> idx = p]]

\* a mask with the same value everywhere
constant_mask(shape, v) == [shape |-> shape, data |-> [idx \in Idx(shape) |-> v]]

\* the index of the given shape with 0 on the first spatial axis and the
\* last position on every other axis
corner(self, shape) ==
  [j \in 1..Len(shape) |->
     IF j = (IF self.channel_axis = 1 THEN 3 ELSE 2) THEN 0 ELSE shape[j] - 1]

\* a mask that differs along the channel axis and is shared by all samples and
\* locations
channel_wise_mask(self, shape) ==
  constant_mask([j \in 1..Len(shape) |->
                   IF j = self.channel_axis + 1 THEN Channels ELSE 1], TRUE)

\* the masks a caller passes for an input of the given shape: none, a
\* channel-wise one, and one constant along the channel axis
MaskArgs(self, shape) ==
  {None, channel_wise_mask(self, shape),
   one_hot(mask_shape(self, shape), corner(self, mask_shape(self, shape)))}

\* more masks constant along the channel axis: one position masked, nothing
\* masked, one position masked in all samples
GoodMaskArgs(self, shape) ==
  LET ms == mask_shape(self, shape)
      shared == [ms EXCEPT ![1] = 1]
  IN  {constant_mask(ms, FALSE), one_hot(shared, corner(self, shared))}
      \cup {one_hot(ms, p) : p \in Idx(ms)}

\* a call is recorded with its receiver and the error it raised
call(op, a1, a2, err) ==
  [op |-> op, a1 |-> a1, a2 |-> a2, err |-> err, self |-> k]

Slice(n1_slice, n2_slice) ==
  /\ Len(trace) < MaxSteps
  /\ LET err == slice_raises(k, n1_slice, n2_slice)
     IN  /\ trace' = Append(trace, call("slice", n1_slice, n2_slice, err))
         /\ k' = IF err = "none" THEN slice(k, n1_slice, n2_slice) ELSE k

Reverse ==
  /\ Len(trace) < MaxSteps
  /\ LET err == reverse_raises(k)
     IN  /\ trace' = Append(trace, call("reverse", None, None, err))
         /\ k' = IF err = "none" THEN reverse(k) ELSE k

Transpose(axes) ==
  /\ Len(trace) < MaxSteps
  /\ LET err == transpose_raises(k, axes)
     IN  /\ trace' = Append(trace, call("transpose", axes, None, err))
         /\ k' = IF err = "none" THEN transpose(k, axes) ELSE k

Mask(mask1, mask2) ==
  /\ Len(trace) < MaxSteps
  /\ LET err == mask_raises(k, mask1, mask2)
     IN  /\ trace' = Append(trace, call("mask", mask1, mask2, err))
         /\ k' = IF err = "none" THEN mask(k, mask1, mask2) ELSE k

SliceStep == \E n1_slice, n2_slice \in Slices : Slice(n1_slice, n2_slice)

TransposeStep == \E axes \in AxesArgs(k) : Transpose(axes)

MaskStep ==
  \E mask1 \in MaskArgs(k, k.shape1) : \E mask2 \in MaskArgs(k, k.shape2) :
    Mask(mask1, mask2)

Next == SliceStep \/ Reverse \/ TransposeStep \/ MaskStep

Spec == Init /\ [][Next]_vars

\* a first call of mask, with masks constant along the channel axis
GoodMask(mask1, mask2) == trace = <<>> /\ Mask(mask1, mask2)

GoodMaskStep ==
  \E mask1 \in GoodMaskArgs(k, k.shape1) :
    \E mask2 \in GoodMaskArgs(k, k.shape2) : GoodMask(mask1, mask2)

SpecMask == Init /\ [][GoodMaskStep]_vars

\* only reverse is called, on Kernels of up to DeepNdim spatial dimensions
SpecReverse == InitDeep /\ [][Reverse]_vars

\* only transpose is called, on Kernels of up to DeepNdim spatial dimensions
SpecTranspose == InitDeep /\ [][TransposeStep]_vars

----------------------------------------------------------------------------
(* Reading the calls made so far *)

Calls == 1..Len(trace)

\* the Kernel the caller holds after call n
After(n) == IF n = Len(trace) THEN k ELSE trace[n + 1].self

\* call n returned a Kernel
Returned(n) == trace[n].err = "none"

\* the Kernel the caller started from
K0 == IF trace = <<>> THEN k ELSE trace[1].self

ArrayFields == {"cov1", "cov2", "nngp", "ntk"}

\* the number of leading batch axes of a covariance array
BatchNdim(self, f) == IF f \in {"cov1", "cov2"} THEN cov_batch_ndim(self) ELSE 2

\* the field of a Kernel by name
Field(self, f) ==
  CASE f = "cov1" -> self.cov1
    [] f = "cov2" -> self.cov2
    [] f = "nngp" -> self.nngp
    [] f = "ntk" -> self.ntk

\* the flags and axes of a Kernel that no operation names in replace()
Structure(self) ==
  <<self.is_gaussian, self.is_input, self.diagonal_batch,
    self.diagonal_spatial, self.batch_axis, self.channel_axis>>


----------------------------------------------------------------------------
(* Claims about reverse *)

\* C1: for a Kernel with diagonal_spatial = False, reverse() returns, and
\* reverse().reverse() is the Kernel itself: every element of cov1, cov2, nngp
\* and ntk at its original index, is_reversed and every other field as before.
C1_ReverseTwice ==
  \A n \in Calls :
    (trace[n].op = "reverse" /\ ~trace[n].self.diagonal_spatial) =>
      /\ Returned(n)
      /\ (n > 1 /\ trace[n - 1].op = "reverse") => After(n) = trace[n - 1].self

\* two reverses of a Kernel with three paired spatial dimensions, full batch
\* covariance, cov2 and ntk present
C1_Witness ==
  /\ Len(trace) = 2
  /\ trace[1].op = "reverse" /\ trace[2].op = "reverse"
  /\ Returned(1) /\ Returned(2)
  /\ ~k.diagonal_spatial /\ ~k.diagonal_batch
  /\ spatial_ndim(k) = 3
  /\ is_array(k.cov2) /\ is_array(k.ntk)
  /\ trace[2].self.cov1 # k.cov1

\* the axes of an array with b leading batch axes, the spatial dimensions in
\* reversed order and each pair of axes in its own order
SpatialReversal(b, diagonal_spatial, ndim) ==
  range(b) \o
  (IF diagonal_spatial
   THEN [i \in 1..ndim |-> b + (ndim - i)]
   ELSE [p \in 1..(2 * ndim) |->
           b + 2 * (ndim - ((p + 1) \div 2)) + (IF p % 2 = 1 THEN 0 ELSE 1)])

\* C9: in both storage layouts reverse() returns a Kernel where the leading
\* batch axes of cov1, cov2, nngp and ntk are in place, the spatial dimensions
\* are in reversed order and the two axes of a pair keep their order.
C9_ReverseSpatialOnly ==
  \A n \in Calls :
    trace[n].op = "reverse" =>
      /\ Returned(n)
      /\ \A f \in ArrayFields :
           LET self == trace[n].self
               mat == Field(self, f)
           IN  is_array(mat) =>
                 Field(After(n), f) =
                   np_transpose(mat, SpatialReversal(BatchNdim(self, f),
                                                     self.diagonal_spatial,
                                                     spatial_ndim(self)))

----------------------------------------------------------------------------
(* Claims about transpose *)

\* the composition of two permutations: q[i] = p1[p2[i]]
Compose(p1, p2) == [i \in 1..Len(p2) |-> p1[p2[i] + 1]]

\* C2: for permutations p1, p2 of the spatial dimensions,
\* transpose(p1).transpose(p2) has the same cov1, cov2, nngp and ntk as
\* transpose(q) with q[i] = p1[p2[i]], in every layout.
C2_TransposeComposition ==
  \A n \in Calls :
    (/\ n > 1
     /\ trace[n - 1].op = "transpose" /\ trace[n].op = "transpose"
     /\ Returned(n - 1) /\ Returned(n)) =>
      LET self == trace[n - 1].self
          p1 == transpose_axes(self, trace[n - 1].a1)
          p2 == transpose_axes(trace[n].self, trace[n].a1)
          once == transpose(self, [tuple |-> Compose(p1, p2)])
      IN  \A f \in ArrayFields : Field(After(n), f) = Field(once, f)

\* two permutations of three paired spatial dimensions that do not commute
C2_Witness ==
  /\ Len(trace) = 2
  /\ trace[1].op = "transpose" /\ trace[2].op = "transpose"
  /\ Returned(1) /\ Returned(2)
  /\ trace[1].a1 = [tuple |-> <<1, 2, 0>>]
  /\ trace[2].a1 = [tuple |-> <<1, 0, 2>>]
  /\ ~k.diagonal_spatial /\ ~k.diagonal_batch
  /\ is_array(k.cov2) /\ is_array(k.ntk)
  /\ k.nngp = transpose(trace[1].self, [tuple |-> <<2, 1, 0>>]).nngp
  /\ k.nngp # transpose(trace[1].self, [tuple |-> <<0, 2, 1>>]).nngp

----------------------------------------------------------------------------
(* Claims about slice *)

\* the sizes of the spatial dimensions of an input shape, in storage order
SpatialSizes(self, shape) ==
  LET logical == SelectSeq([j \in 1..Len(shape) |-> <<j, shape[j]>>],
                           LAMBDA e : /\ e[1] # self.batch_axis + 1
                                      /\ e[1] # self.channel_axis + 1)
      sizes == [i \in 1..Len(logical) |-> logical[i][2]]
  IN  IF self.is_reversed
      THEN [i \in 1..Len(sizes) |-> sizes[Len(sizes) + 1 - i]]
      ELSE sizes

\* the storage shape the data model gives an array with the leading batch
\* sizes: every spatial size once if diagonal_spatial, twice otherwise
StorageShape(self, batch, shape) ==
  LET sizes == SpatialSizes(self, shape)
  IN  batch \o
      (IF self.diagonal_spatial THEN sizes
       ELSE [p \in 1..(2 * Len(sizes)) |-> sizes[(p + 1) \div 2]])

\* the batch axes of cov1 or cov2 for n samples
CovBatch(self, n) == IF self.diagonal_batch THEN <<n>> ELSE <<n, n>>

\* the shape invariants of the data model
ShapeInvariant(self) ==
  LET n1 == self.shape1[1]
      n2 == self.shape2[1]
  IN  /\ self.cov1.shape = StorageShape(self, CovBatch(self, n1), self.shape1)
      /\ is_array(self.cov2) =>
           self.cov2.shape = StorageShape(self, CovBatch(self, n2), self.shape2)
      /\ self.nngp.shape = StorageShape(self, <<n1, n2>>, self.shape1)
      /\ is_array(self.ntk) => self.ntk.shape = self.nngp.shape

\* C4: slice of a Kernel that satisfies the shape invariants returns a Kernel
\* that satisfies them again: every batch axis of cov1 has the size m1 of the
\* first selection, every batch axis of cov2 the size m2 of the second, nngp
\* and ntk have shape (m1, m2, spatial...), shape1[0] = m1, shape2[0] = m2,
\* and the other components of shape1 and shape2 are unchanged.
C4_SliceKeepsInvariants ==
  \A n \in Calls :
    LET self == trace[n].self
        ret == After(n)
        m1 == Len(slice_indices(trace[n].a1, self.shape1[1]))
        m2 == Len(slice_indices(trace[n].a2, self.shape2[1]))
    IN  (trace[n].op = "slice" /\ Returned(n) /\ ShapeInvariant(self)) =>
          /\ ret.shape1 = <<m1>> \o Tail(self.shape1)
          /\ ret.shape2 = <<m2>> \o Tail(self.shape2)
          /\ ShapeInvariant(ret)

\* C7: every operation on a Kernel whose ntk is absent returns a Kernel whose
\* ntk is absent; stated for slice.
C7_SliceAbsentNtk ==
  \A n \in Calls :
    (trace[n].op = "slice" /\ is_none(trace[n].self.ntk)) =>
      Returned(n) /\ is_none(After(n).ntk)

\* the number of calls of reverse that returned
RECURSIVE Reverses(_)
Reverses(n) ==
  IF n = 0 THEN 0
  ELSE Reverses(n - 1)
       + (IF trace[n].op = "reverse" /\ Returned(n) THEN 1 ELSE 0)

\* C10: after any sequence of calls, is_gaussian, is_input, diagonal_batch,
\* diagonal_spatial, batch_axis and channel_axis are those of the first
\* Kernel; is_reversed is that of the first Kernel after an even number of
\* reverse calls and its negation after an odd number; shape1 and shape2
\* change only across a slice call and then only in component 0.
C10_Frame ==
  /\ Structure(k) = Structure(K0)
  /\ k.is_reversed = (IF Reverses(Len(trace)) % 2 = 0 THEN K0.is_reversed
                      ELSE ~K0.is_reversed)
  /\ \A n \in Calls :
       LET self == trace[n].self
           ret == After(n)
       IN  IF trace[n].op = "slice"
           THEN /\ Len(ret.shape1) = Len(self.shape1)
                /\ Len(ret.shape2) = Len(self.shape2)
                /\ Tail(ret.shape1) = Tail(self.shape1)
                /\ Tail(ret.shape2) = Tail(self.shape2)
           ELSE ret.shape1 = self.shape1 /\ ret.shape2 = self.shape2

\* a reverse and then a slice that changes shape1[0], both returning
C10_Witness ==
  /\ Len(trace) = 2
  /\ trace[1].op = "reverse" /\ trace[2].op = "slice"
  /\ Returned(1) /\ Returned(2)
  /\ k.is_reversed # K0.is_reversed
  /\ k.shape1[1] # K0.shape1[1]
  /\ spatial_ndim(k) = 2

----------------------------------------------------------------------------
(* Claims about mask *)

\* a mask argument that is present with size 1 along the channel axis
ChannelConstant(self, m) ==
  is_array(m) /\ m.shape[self.channel_axis + 1] = 1

\* a mask argument that is present with another size along the channel axis
ChannelWise(self, m) ==
  is_array(m) /\ m.shape[self.channel_axis + 1] # 1

\* C8: mask with at least one present mask of size greater than 1 along
\* channel_axis raises NotImplementedError, whichever argument it is and
\* whether or not the other one is absent, and the caller's Kernel is as
\* before.
C8_ChannelWiseRejected ==
  \A n \in Calls :
    LET self == trace[n].self
    IN  (/\ trace[n].op = "mask"
         /\ ChannelWise(self, trace[n].a1) \/ ChannelWise(self, trace[n].a2)) =>
          trace[n].err = "NotImplementedError" /\ After(n) = self

\* mask(None, m2) with a channel-wise m2, and then mask(m1, m2) with a
\* channel-wise m2 after a mask constant along the channel axis
C8_Witness ==
  /\ Len(trace) = 2
  /\ trace[1].op = "mask" /\ trace[2].op = "mask"
  /\ is_none(trace[1].a1) /\ ChannelWise(k, trace[1].a2)
  /\ ChannelConstant(k, trace[2].a1) /\ ChannelWise(k, trace[2].a2)
  /\ trace[1].err = "NotImplementedError"
  /\ trace[2].err = "NotImplementedError"
  /\ spatial_ndim(k) = 2 /\ k.channel_axis = 1

\* C6: mask returns a Kernel whose mask1 and mask2 are the two arguments also
\* when one or both arguments are absent; stated for Kernels with
\* diagonal_spatial = False and arguments that are absent or constant along
\* the channel axis.
C6_AbsentMaskAccepted ==
  \A n \in Calls :
    LET self == trace[n].self
        mask1 == trace[n].a1
        mask2 == trace[n].a2
    IN  (/\ trace[n].op = "mask"
         /\ ~self.diagonal_spatial
         /\ is_none(mask1) \/ is_none(mask2)
         /\ is_none(mask1) \/ ChannelConstant(self, mask1)
         /\ is_none(mask2) \/ ChannelConstant(self, mask2)) =>
          /\ Returned(n)
          /\ After(n).mask1 = mask1
          /\ After(n).mask2 = mask2

\* the spatial location a tuple of storage positions stands for
Location(self, t) ==
  IF self.is_reversed THEN [i \in 1..Len(t) |-> t[Len(t) + 1 - i]] ELSE t

\* the entry of a mask for sample i and spatial location s
MaskAt(self, m, i, s) ==
  LET at == [j \in 1..(Len(s) + 2) |->
               IF j = self.batch_axis + 1 THEN i
               ELSE IF j = self.channel_axis + 1 THEN 0
               ELSE s[j - 1 - (IF j > self.channel_axis + 1 THEN 1 ELSE 0)]]
  IN  m.data[broadcast_index(at, m.shape)]

\* whether the entry at a storage index of a covariance array with b batch
\* axes is flagged by the OR of the row mask ma and the column mask mb
Flagged(self, ma, mb, b, idx) ==
  LET nd == spatial_ndim(self)
      i == idx[1]
      j == IF b = 2 THEN idx[2] ELSE idx[1]
      s1 == IF self.diagonal_spatial THEN [d \in 1..nd |-> idx[b + d]]
            ELSE [d \in 1..nd |-> idx[b + 2 * d - 1]]
      s2 == IF self.diagonal_spatial THEN s1
            ELSE [d \in 1..nd |-> idx[b + 2 * d]]
  IN  MaskAt(self, ma, i, Location(self, s1))
      \/ MaskAt(self, mb, j, Location(self, s2))

\* the array with exactly the flagged entries set to 0
Zeroed(self, mat, ma, mb, b) ==
  [shape |-> mat.shape,
   data  |-> [idx \in Idx(mat.shape) |->
                IF Flagged(self, ma, mb, b, idx) THEN 0 ELSE mat.data[idx]]]

====
